---------------------------- MODULE Spec2Model ----------------------------
(***************************************************************************)
(* Image scoring route (Azure AI Vision scoring API, POST handler and its  *)
(* helpers).  One scoring request is a sequence of event-loop turns: each  *)
(* action below is the code that runs from the return of one awaited       *)
(* provider call up to the next await.                                     *)
(*                                                                         *)
(* Numbers.  A similarity is a non-negative real of the form n / sqrt(d2); *)
(* it is kept exactly as the record [n |-> n, d2 |-> d2].  A cosine        *)
(* dot / (|a| |b|) is [n |-> dot, d2 |-> |a|^2 |b|^2], a quotient i / u is *)
(* [n |-> i, d2 |-> u * u], a value in hundredths h / 100 is               *)
(* [n |-> h, d2 |-> 10000].  Floating point rounding error is not          *)
(* modelled.                                                               *)
(*                                                                         *)
(* Texts are sequences of one-character strings.                           *)
(***************************************************************************)
EXTENDS Integers, Sequences, FiniteSets, TLC

\* ----------------------------------------------------------------- numbers
Num(n, d2) == [n |-> n, d2 |-> d2]
Zero == Num(0, 1)
\* The same real number written with the least numerator (a real has one
\* value, whatever quotient produced it).
LeastForm(n, d2) ==
  IF n = 0 THEN Zero
  ELSE LET a == CHOOSE a \in 1 .. n :
                  /\ \E b \in 1 .. d2 : a * a * d2 = n * n * b
                  /\ \A c \in 1 .. (a - 1) : \A b \in 1 .. d2 : c * c * d2 # n * n * b
       IN  Num(a, CHOOSE b \in 1 .. d2 : a * a * d2 = n * n * b)
\* The arguments are evaluated once, then reduced.
Real(n, d2) == CHOOSE v \in {LeastForm(i, j) : i \in {n}, j \in {d2}} : TRUE
NumEq(v, w) == v.n * v.n * w.d2 = w.n * w.n * v.d2
NumLeqOne(v) == v.n * v.n <= v.d2
Hundredths(h) == Num(h, 10000)

\* Variant: no rounding.
Round2_Unrounded(v) == v

\* Math.round(x * 100) / 100 for x = v.n / sqrt(v.d2) >= 0.  Math.round
\* rounds half up: the result is the largest h with h - 1/2 <= 100 x, that is
\* h = 0 or (2h - 1)^2 * d2 <= 40000 * n^2.
RoundReaches(v, h) == h = 0 \/ (2 * h - 1) * (2 * h - 1) * v.d2 <= 40000 * v.n * v.n
Round2(v) ==
  Hundredths(CHOOSE h \in 0 .. 100 * v.n :
               RoundReaches(v, h) /\ ~RoundReaches(v, h + 1))

\* Whether v is a whole number of hundredths.
IsTwoDecimals(v) == \E h \in 0 .. 100 * v.n : NumEq(v, Hundredths(h))

\* ------------------------------------------------------------------- texts
Range(s) == {s[i] : i \in DOMAIN s}

\* String.prototype.toLowerCase on the alphabet of the model.
LowerChar(c) == IF c = "A" THEN "a" ELSE IF c = "B" THEN "b" ELSE c
ToLowerCase(t) == [i \in DOMAIN t |-> LowerChar(t[i])]

IsSpace(c) == c = " "

\* String.prototype.trim
RECURSIVE TrimStart(_)
TrimStart(t) == IF t # <<>> /\ IsSpace(Head(t)) THEN TrimStart(Tail(t)) ELSE t
RECURSIVE TrimEnd(_)
TrimEnd(t) ==
  IF t # <<>> /\ IsSpace(t[Len(t)]) THEN TrimEnd(SubSeq(t, 1, Len(t) - 1)) ELSE t
Trim(t) == TrimEnd(TrimStart(t))

\* String.prototype.split(/\s+/): the pieces between maximal runs of
\* whitespace.  The empty text splits into one empty piece.
RECURSIVE SplitFrom(_, _, _)
SplitFrom(t, cur, afterSpace) ==
  IF t = <<>> THEN <<cur>>
  ELSE IF IsSpace(Head(t))
       THEN IF afterSpace THEN SplitFrom(Tail(t), cur, TRUE)
            ELSE <<cur>> \o SplitFrom(Tail(t), <<>>, TRUE)
       ELSE SplitFrom(Tail(t), Append(cur, Head(t)), FALSE)
SplitWhitespace(t) == SplitFrom(t, <<>>, FALSE)

Words(t) == SplitWhitespace(Trim(ToLowerCase(t)))

calculateBasicTextSimilarity(text1, text2) ==
  LET words1 == Words(text1)
      words2 == Words(text2)
      words2Set == Range(words2)
      intersectionCount == Len(SelectSeq(words1, LAMBDA w : w \in words2Set))
      unionSize == Cardinality(Range(words1 \o words2))
  IN  IF unionSize > 0 THEN Real(intersectionCount, unionSize * unionSize) ELSE Zero

\* ----------------------------------------------------------------- vectors
RECURSIVE SumProducts(_, _, _)
SumProducts(a, b, i) ==
  IF i = 0 THEN 0 ELSE SumProducts(a, b, i - 1) + a[i] * b[i]

\* calculateCosineSimilarity: the outcome is a thrown error for vectors of
\* different length and a number otherwise.
Threw == [threw |-> TRUE]
Returned(v) == [threw |-> FALSE, value |-> v]

\* Variant: vectors of different length yield 0.
calculateCosineSimilarity_MismatchIsZero(vector1, vector2) ==
  IF Len(vector1) # Len(vector2) THEN Returned(Zero)
  ELSE LET dotProduct == SumProducts(vector1, vector2, Len(vector1))
           magnitude1 == SumProducts(vector1, vector1, Len(vector1))
           magnitude2 == SumProducts(vector2, vector2, Len(vector2))
       IN  IF magnitude1 = 0 \/ magnitude2 = 0 THEN Returned(Zero)
           ELSE IF dotProduct < 0 THEN Returned(Zero)
           ELSE Returned(Real(dotProduct, magnitude1 * magnitude2))

\* Variant: a negative cosine is returned as it is (its sign kept in n).
calculateCosineSimilarity_Unclamped(vector1, vector2) ==
  IF Len(vector1) # Len(vector2) THEN Threw
  ELSE LET dotProduct == SumProducts(vector1, vector2, Len(vector1))
           magnitude1 == SumProducts(vector1, vector1, Len(vector1))
           magnitude2 == SumProducts(vector2, vector2, Len(vector2))
       IN  IF magnitude1 = 0 \/ magnitude2 = 0 THEN Returned(Zero)
           ELSE IF dotProduct < 0
                THEN Returned(Num(-Real(-dotProduct, magnitude1 * magnitude2).n,
                                  Real(-dotProduct, magnitude1 * magnitude2).d2))
           ELSE Returned(Real(dotProduct, magnitude1 * magnitude2))

\* Variant: no test for a zero magnitude; the quotient 0 / 0 is no number.
calculateCosineSimilarity_ZeroOverZero(vector1, vector2) ==
  IF Len(vector1) # Len(vector2) THEN Threw
  ELSE LET dotProduct == SumProducts(vector1, vector2, Len(vector1))
           magnitude1 == SumProducts(vector1, vector1, Len(vector1))
           magnitude2 == SumProducts(vector2, vector2, Len(vector2))
       IN  IF magnitude1 = 0 \/ magnitude2 = 0 THEN Returned(Num(0, 0))
           ELSE IF dotProduct < 0 THEN Returned(Zero)
           ELSE Returned(Real(dotProduct, magnitude1 * magnitude2))

\* The sum of squares of the components is the square of the magnitude; the
\* result dotProduct / (magnitude1 * magnitude2) is kept exact, and
\* Math.max(0, .) replaces a negative quotient by 0.

calculateCosineSimilarity(vector1, vector2) ==
  IF Len(vector1) # Len(vector2) THEN Threw
  ELSE LET dotProduct == SumProducts(vector1, vector2, Len(vector1))
           magnitude1 == SumProducts(vector1, vector1, Len(vector1))
           magnitude2 == SumProducts(vector2, vector2, Len(vector2))
       IN  IF magnitude1 = 0 \/ magnitude2 = 0 THEN Returned(Zero)
           ELSE IF dotProduct < 0 THEN Returned(Zero)
           ELSE Returned(Real(dotProduct, magnitude1 * magnitude2))


\* ------------------------------------------------- the scoring route: data
\* Request 1 is the request under study.  Request 2 is served only in
\* SpecTwin, where it replays request 1 with some provider outcomes changed.
Requests == {1, 2}

Null == [null |-> TRUE]
Pending == [pending |-> TRUE]

embeddingModels == <<
  [name |-> "text-embedding-ada-002", key |-> "ada002", dimensions |-> 1536],
  [name |-> "text-embedding-3-small", key |-> "embedding3Small", dimensions |-> 1536],
  [name |-> "text-embedding-3-large", key |-> "embedding3Large", dimensions |-> 3072] >>

ModelKeys == {embeddingModels[i].key : i \in DOMAIN embeddingModels}

\* A call site of one request: <<branch, call>>.
CaptionFetch == <<"caption", "fetch">>
ImageVector == <<"multimodal", "image">>
TextVector == <<"multimodal", "text">>
ChatFetch == <<"gpt4o", "fetch">>
SemanticSites(branch) == {<<branch, "text1">>, <<branch, "text2">>}
ModelSites(key) == {<<key, "prompt">>, <<key, "caption">>, <<key, "description">>}
ComparisonSites == UNION {ModelSites(k) : k \in ModelKeys}
AllSites ==
  {CaptionFetch, ImageVector, TextVector, ChatFetch}
    \cup SemanticSites("caption") \cup SemanticSites("gpt4o") \cup ComparisonSites

\* What the providers may answer.  The prompt is embedded as PromptVector;
\* any other text or image as a vector of the same length (their cosine is
\* 1 / sqrt 2, which is no whole number of hundredths) or of another length.
ProviderCaptions == {<<"a", " ", "a", " ", "b", " ", "c">>}
ProviderDescriptions == {<<"a", " ", "b">>}
PromptVector == <<1, 1>>
OtherVectors == {<<1, 0>>, <<1>>}
ProviderConfidence == Hundredths(87)

PromptSites ==
  {<<"caption", "text2">>, <<"gpt4o", "text2">>, TextVector}
    \cup {<<k, "prompt">> : k \in ModelKeys}

HttpError == [status |-> "error"]
Malformed == [status |-> "malformed"]
Failures == {HttpError, Malformed}
CaptionOutcomes ==
  Failures \cup {[status |-> "ok", text |-> t, confidence |-> ProviderConfidence] :
                   t \in ProviderCaptions}
VectorOutcomes(site) ==
  Failures \cup {[status |-> "ok", vector |-> v] :
                   v \in IF site \in PromptSites THEN {PromptVector} ELSE OtherVectors}
ChatOutcomes ==
  Failures \cup {[status |-> "nocontent"]}
           \cup {[status |-> "ok", text |-> d] : d \in ProviderDescriptions}

\* What a client may send: a body that does not parse as form data, or the
\* fields image (missing, an image file, a file of another type) and prompt
\* (missing, or a text, possibly empty).
RequestPrompts == {<<>>, <<"a", " ", "b", " ", "c">>, <<" ">>}
Inputs ==
  {[parsed |-> FALSE]}
    \cup {[parsed |-> TRUE, image |-> i, hasPrompt |-> FALSE] :
            i \in {"missing", "image/png"}}
    \cup {[parsed |-> TRUE, image |-> i, hasPrompt |-> TRUE, prompt |-> p] :
            i \in {"missing", "image/png", "text/plain"}, p \in RequestPrompts}

VARIABLES
  env,                 \* process.env: which provider credentials are set
  pc,                  \* where each request's handler is suspended
  request,             \* the form data of each request
  outstanding,         \* the provider calls the handler's current await waits for
  returned,            \* results of the awaited calls that have returned
  issued,              \* how often each call site has been invoked
  failures,            \* the calls whose failure was delivered to the handler
  vectorized,          \* length of the vector each vectorize call has returned
  generated,           \* generatedCaption / generatedDescription of the running scorer
  azureVisionResult, multimodalResult, gpt4oResult,
  results, modelIndex, \* the loop of calculateEmbeddingModelComparison
  embeddingComparison,
  response,
  echo,                \* SpecTwin: the event request 2 has still to replay
  family,              \* SpecTwin: the calls whose outcome the requests do not share
  now,                 \* score-image: Date.now(), in milliseconds
  tempImagePath,       \* score-image: the temporary file of each request
  tempFiles,           \* score-image: the content of each file of temp/
  pythonProcess,       \* score-image: the scorer process of each request
  loaded,              \* score-image: what each scorer process read from its file
  blipSimilarity,      \* score-image: how each request's promise has settled
  pureInput,           \* the arguments of a call of one of the pure functions
  pureOutput,          \* what that call returned or threw
  originalPreview,     \* iterative editor: object URL of the uploaded image
  currentImageUrl,     \* iterative editor: the displayed image
  editPrompt,          \* iterative editor: the edit instruction typed in
  isEditing,           \* iterative editor: an edit request is in flight
  history,             \* iterative editor: the edits and the cursor
  error,               \* iterative editor: the message shown
  closure,             \* iterative editor: what the running applyEdit captured
  created,             \* iterative editor: object URLs and edit results so far
  videoPc,             \* video route: where the handler is suspended
  attempt,             \* video route: the loop variable of pollJobStatus
  polls,               \* video route: status requests issued
  waits,               \* video route: waits between polls begun
  contentRequests,     \* video route: requests for the video content issued
  statusData,          \* video route: what the last status request returned
  videoResponse        \* video route: the response of POST

routeVars == <<env, pc, request, outstanding, returned, issued, failures,
               vectorized, family, generated, azureVisionResult, multimodalResult, gpt4oResult,
               results, modelIndex, embeddingComparison, response, echo>>
blipVars == <<now, tempImagePath, tempFiles, pythonProcess, loaded, blipSimilarity>>
pureVars == <<pureInput, pureOutput>>
editorVars == <<originalPreview, currentImageUrl, editPrompt, isEditing, history, error,
                closure, created>>
videoVars == <<videoPc, attempt, polls, waits, contentRequests, statusData, videoResponse>>
vars == <<routeVars, blipVars, pureVars, editorVars, videoVars>>
\* What a step of one part of the program leaves alone.
outsideRoute == <<blipVars, pureVars, editorVars, videoVars>>
outsideBlip == <<routeVars, pureVars, editorVars, videoVars>>
outsidePure == <<routeVars, blipVars, editorVars, videoVars>>
outsideEditor == <<routeVars, blipVars, pureVars, videoVars>>
outsideVideo == <<routeVars, blipVars, pureVars, editorVars>>

NoEvent == [act |-> "none"]

InitRequests ==
  /\ pc = [r \in Requests |-> <<"post", "idle">>]
  /\ request = [r \in Requests |-> Pending]
  /\ outstanding = [r \in Requests |-> {}]
  /\ returned = [r \in Requests |-> <<>>]
  /\ issued = [r \in Requests |-> [s \in AllSites |-> 0]]
  /\ failures = [r \in Requests |-> {}]
  /\ vectorized = [r \in Requests |-> <<>>]
  /\ generated = [r \in Requests |-> Pending]
  /\ azureVisionResult = [r \in Requests |-> Pending]
  /\ multimodalResult = [r \in Requests |-> Pending]
  /\ gpt4oResult = [r \in Requests |-> Pending]
  /\ results = [r \in Requests |-> <<>>]
  /\ modelIndex = [r \in Requests |-> 0]
  /\ embeddingComparison = [r \in Requests |-> Pending]
  /\ response = [r \in Requests |-> Pending]
  /\ echo = NoEvent

\* The subprocess-based scorer (score-image) before any request: temp/ is
\* empty and no scorer process runs.
MaxNow == 2
TempPath(t) == <<"scoring_image", t>>
TempPaths == {TempPath(t) : t \in 0 .. MaxNow}
NoFile == <<>>
NoPath == <<>>
NotLoaded == <<>>
FileNotFound == <<"ENOENT">>
imageBuffer(r) == <<"image", r>>

InitBlip ==
  /\ now = 0
  /\ tempImagePath = [r \in Requests |-> NoPath]
  /\ tempFiles = [p \in TempPaths |-> NoFile]
  /\ pythonProcess = [r \in Requests |-> "none"]
  /\ loaded = [r \in Requests |-> NotLoaded]
  /\ blipSimilarity = [r \in Requests |-> "pending"]

\* No call of a pure function is under study.
InitPure == pureInput = Null /\ pureOutput = Pending

\* The iterative editor as it is mounted: the initial values of useState.
NoUrl == <<>>
InitEditor ==
  /\ originalPreview = NoUrl
  /\ currentImageUrl = NoUrl
  /\ editPrompt = <<>>
  /\ isEditing = FALSE
  /\ history = [edits |-> <<>>, currentIndex |-> -1]
  /\ error = ""
  /\ closure = Null
  /\ created = [uploads |-> 0, edits |-> 0]

\* The video route before a request.
InitVideo ==
  /\ videoPc = "idle"
  /\ attempt = 0
  /\ polls = 0
  /\ waits = 0
  /\ contentRequests = 0
  /\ statusData = Null
  /\ videoResponse = Pending

Init ==
  /\ env \in [vision : BOOLEAN, openai : BOOLEAN, gpt4o : BOOLEAN]
  /\ family = {}
  /\ InitRequests
  /\ InitBlip
  /\ InitPure
  /\ InitEditor
  /\ InitVideo

\* ---------------------------------------------- the scoring route: helpers
Goto(r, branch, stage) == pc' = [pc EXCEPT ![r] = <<branch, stage>>]

\* fetch of every call in `sites`, followed by the await of all of them.
Call(r, sites) ==
  /\ outstanding' = [outstanding EXCEPT ![r] = sites]
  /\ returned' = [returned EXCEPT ![r] = <<>>]
  /\ issued' = [issued EXCEPT ![r] =
                  [s \in AllSites |-> IF s \in sites THEN @[s] + 1 ELSE @[s]]]

NoCall == UNCHANGED <<outstanding, returned, issued>>

\* The awaited call `site` returns and the await ends: every awaited call
\* has returned, or this one rejected and Promise.all rejects at once.  The
\* other calls of a rejected Promise.all stay in flight, but nothing waits
\* for them and nothing observes their return: they are tracked no further.
Settle(r, site) ==
  /\ outstanding' = [outstanding EXCEPT ![r] = {}]
  /\ returned' = [returned EXCEPT ![r] = <<>>]
  /\ UNCHANGED issued

\* The awaited call `site` returns while other awaited calls are in flight.
Keep(r, site, outcome) ==
  /\ outstanding' = [outstanding EXCEPT ![r] = @ \ {site}]
  /\ returned' = [returned EXCEPT ![r] = (site :> outcome) @@ @]
  /\ UNCHANGED issued

\* The failure of a call is recorded per fetch, per vectorize call, and per
\* Promise.all of embedding calls (whichever of its calls failed first).
FailureGroup(site) ==
  IF site[2] \in {"fetch", "image", "text"} THEN site ELSE <<site[1], "embed">>
Fail(r, site) == failures' = [failures EXCEPT ![r] = @ \cup {FailureGroup(site)}]

\* The responses of POST.
Elapsed == [processingTime |-> "elapsed"]
MissingFields ==
  [success |-> FALSE, status |-> 400, metadata |-> Null,
   error |-> "Missing required fields: image and prompt"]
InvalidFileType ==
  [success |-> FALSE, status |-> 400, metadata |-> Null,
   error |-> "Invalid file type. Please upload an image file."]

\* Variant: the catch block of POST answers without metadata.
ServerError_WithoutMetadata ==
  [success |-> FALSE, status |-> 500, metadata |-> Null,
   error |-> "Failed to score image"]

ServerError ==
  [success |-> FALSE, status |-> 500, metadata |-> Elapsed,
   error |-> "Failed to score image"]

\* Variant: every file type is accepted.
IsImageType_Any(type) == TRUE

IsImageType(type) == type = "image/png"

\* Variant: the caption score is reported only with a multimodal score.
Scores_PrimaryNeedsMultimodal(vision, multimodal, gpt4o) ==
  [azureVisionSimilarity |->
     IF multimodal # Null THEN Round2(vision.similarity) ELSE Zero,
   azureMultimodalSimilarity |->
     IF multimodal # Null THEN Round2(multimodal.similarity) ELSE Null,
   gpt4oDescriptionSimilarity |->
     IF gpt4o # Null THEN Round2(gpt4o.similarity) ELSE Null]

\* Variant: the description score is left out of the response.
Scores_WithoutDescription(vision, multimodal, gpt4o) ==
  [azureVisionSimilarity |-> Round2(vision.similarity),
   azureMultimodalSimilarity |->
     IF multimodal # Null THEN Round2(multimodal.similarity) ELSE Null,
   gpt4oDescriptionSimilarity |-> Null]

\* The scores object of the success response.
Scores(vision, multimodal, gpt4o) ==
  [azureVisionSimilarity |-> Round2(vision.similarity),
   azureMultimodalSimilarity |->
     IF multimodal # Null THEN Round2(multimodal.similarity) ELSE Null,
   gpt4oDescriptionSimilarity |->
     IF gpt4o # Null THEN Round2(gpt4o.similarity) ELSE Null]

ScoringResponse(vision, multimodal, gpt4o, comparison) ==
  [success |-> TRUE,
   status |-> 200,
   scores |-> Scores(vision, multimodal, gpt4o),
   metadata |-> Elapsed,
   azureVisionDetails |->
     [generatedCaption |-> vision.generatedCaption,
      confidence |-> Round2(vision.confidence)],
   multimodalDetails |->
     IF multimodal # Null
     THEN [imageEmbeddingDimensions |-> multimodal.imageEmbeddingDimensions,
           textEmbeddingDimensions |-> multimodal.textEmbeddingDimensions]
     ELSE Null,
   gpt4oDetails |->
     IF gpt4o # Null
     THEN [generatedDescription |-> gpt4o.generatedDescription]
     ELSE Null,
   embeddingComparison |-> comparison]

\* The catch block of calculateAzureVisionSimilarity.
CaptionFallback ==
  [similarity |-> Zero, generatedCaption |-> <<>>, confidence |-> Zero]

\* Variant: a failed description is reported as a zero score.
DescriptionFailure_Zero == [similarity |-> Zero, generatedDescription |-> <<>>]

\* Variant: the catch block of calculateSemanticSimilarity returns 0.
SemanticFallback_Zero(text1, text2) == Zero

\* Variant: the catch block of the loop zeroes every result stored so far.
CatchModel_ZeroesAll(done, model) ==
  [k \in DOMAIN done \cup {model.key} |->
     IF k = model.key
     THEN [azureVisionSimilarity |-> Zero, gpt4oSimilarity |-> Zero,
           modelName |-> model.name, dimensions |-> model.dimensions]
     ELSE [done[k] EXCEPT !.azureVisionSimilarity = Zero, !.gpt4oSimilarity = Zero]]

\* What calculateGPT4oDescriptionSimilarity returns after a failed or
\* malformed chat completion.
DescriptionFailure == Null

\* The catch block of calculateSemanticSimilarity.
SemanticFallback(text1, text2) == calculateBasicTextSimilarity(text1, text2)

\* Variant: the fallback result carries no dimensions.
FallbackEntry_WithoutDimensions(model) ==
  [azureVisionSimilarity |-> Zero, gpt4oSimilarity |-> Zero,
   modelName |-> model.name, dimensions |-> 0]

\* The catch block of the loop of calculateEmbeddingModelComparison: the
\* fallback result of `model`, and results after it is stored.
FallbackEntry(model) ==
  [azureVisionSimilarity |-> Zero, gpt4oSimilarity |-> Zero,
   modelName |-> model.name, dimensions |-> model.dimensions]
CatchModel(done, model) == (model.key :> FallbackEntry(model)) @@ done

\* The try block of that loop, once the three embeddings are there
\* (gpt4oEmbedding is null when no description was embedded).
ModelEntry(model, promptEmbedding, azureCaptionEmbedding, gpt4oEmbedding) ==
  LET azureVisionSimilarity ==
        calculateCosineSimilarity(promptEmbedding.vector, azureCaptionEmbedding.vector)
      gpt4oSimilarity ==
        IF gpt4oEmbedding # Null
        THEN calculateCosineSimilarity(promptEmbedding.vector, gpt4oEmbedding.vector)
        ELSE Returned(Zero)
  IN  IF azureVisionSimilarity.threw \/ gpt4oSimilarity.threw
      THEN FallbackEntry(model)
      ELSE [azureVisionSimilarity |-> azureVisionSimilarity.value,
            gpt4oSimilarity |-> gpt4oSimilarity.value,
            modelName |-> model.name, dimensions |-> model.dimensions]

\* calculateSemanticSimilarity once both embeddings are there.
SemanticSimilarity(text1, text2, result1, result2) ==
  LET similarity == calculateCosineSimilarity(result1.vector, result2.vector)
  IN  IF similarity.threw THEN SemanticFallback(text1, text2)
      ELSE similarity.value

\* Variant: a text vector alone yields a multimodal result.
MultimodalSimilarity_Partial(imageEmbedding, textEmbedding) ==
  IF textEmbedding.status # "ok" THEN Null
  ELSE [similarity |-> Zero,
        imageEmbeddingDimensions |-> 0,
        textEmbeddingDimensions |-> Len(textEmbedding.vector)]

\* calculateMultimodalSimilarity once both vectorize calls have returned.
MultimodalSimilarity(imageEmbedding, textEmbedding) ==
  IF imageEmbedding.status # "ok" \/ textEmbedding.status # "ok" THEN Null
  ELSE LET similarity ==
             calculateCosineSimilarity(imageEmbedding.vector, textEmbedding.vector)
       IN  IF similarity.threw THEN Null
           ELSE [similarity |-> similarity.value,
                 imageEmbeddingDimensions |-> Len(imageEmbedding.vector),
                 textEmbeddingDimensions |-> Len(textEmbedding.vector)]

\* Variant: a missing description is passed on as a placeholder text.
DescriptionArgument_Placeholder(gpt4o) ==
  IF gpt4o = Null THEN <<"a">> ELSE gpt4o.generatedDescription

\* gpt4oResult?.generatedDescription || ''
DescriptionArgument(gpt4o) ==
  IF gpt4o = Null THEN <<>> ELSE gpt4o.generatedDescription

\* ---------------------------------------------- the scoring route: actions
\* POST up to its first await after validation.
POST(r, input) ==
  /\ pc[r] = <<"post", "idle">>
  /\ request' = [request EXCEPT ![r] = input]
  /\ IF ~input.parsed
     THEN /\ response' = [response EXCEPT ![r] = ServerError]
          /\ Goto(r, "post", "done")
     ELSE IF input.image = "missing" \/ ~input.hasPrompt \/ input.prompt = <<>>
     THEN /\ response' = [response EXCEPT ![r] = MissingFields]
          /\ Goto(r, "post", "done")
     ELSE IF ~IsImageType(input.image)
     THEN /\ response' = [response EXCEPT ![r] = InvalidFileType]
          /\ Goto(r, "post", "done")
     ELSE /\ Goto(r, "post", "decode")
          /\ UNCHANGED response
  /\ NoCall
  /\ UNCHANGED <<vectorized, failures, generated, azureVisionResult,
                 multimodalResult, gpt4oResult, results, modelIndex,
                 embeddingComparison>>

\* Variant: a throw while decoding the image is not caught, and the handler
\* ends without a response.
Decode_Uncaught(r, ok) ==
  /\ pc[r] = <<"post", "decode">>
  /\ IF ok THEN Goto(r, "caption", "start") ELSE Goto(r, "post", "done")
  /\ NoCall
  /\ UNCHANGED <<vectorized, request, failures, generated, azureVisionResult, multimodalResult,
                 gpt4oResult, results, modelIndex, embeddingComparison, response>>

\* imageFile.arrayBuffer() and sharp(imageBuffer).metadata() resolve or throw.
Decode(r, ok) ==
  /\ pc[r] = <<"post", "decode">>
  /\ IF ok
     THEN Goto(r, "caption", "start") /\ UNCHANGED response
     ELSE /\ response' = [response EXCEPT ![r] = ServerError]
          /\ Goto(r, "post", "done")
  /\ NoCall
  /\ UNCHANGED <<vectorized, request, failures, generated, azureVisionResult, multimodalResult,
                 gpt4oResult, results, modelIndex, embeddingComparison>>

\* Variant: the image vectorize call is issued together with the caption
\* fetch.
CaptionStart_WithImageVector(r) ==
  /\ pc[r] = <<"caption", "start">>
  /\ Call(r, {CaptionFetch, ImageVector})
  /\ Goto(r, "caption", "fetch")
  /\ UNCHANGED <<vectorized, request, failures, generated, azureVisionResult,
                 multimodalResult, gpt4oResult, results, modelIndex,
                 embeddingComparison, response>>

\* calculateAzureVisionSimilarity up to its fetch.
CaptionStart(r) ==
  /\ pc[r] = <<"caption", "start">>
  /\ IF env.vision
     THEN /\ Call(r, {CaptionFetch})
          /\ Goto(r, "caption", "fetch")
          /\ UNCHANGED azureVisionResult
     ELSE /\ azureVisionResult' = [azureVisionResult EXCEPT ![r] = CaptionFallback]
          /\ Goto(r, "multimodal", "start")
          /\ NoCall
  /\ UNCHANGED <<vectorized, request, failures, generated, multimodalResult, gpt4oResult,
                 results, modelIndex, embeddingComparison, response>>

\* Variant: a failed caption fetch is tried a second time.
CaptionReturn_RetriesOnce(r, outcome) ==
  /\ pc[r] = <<"caption", "fetch">>
  /\ CaptionFetch \in outstanding[r]
  /\ IF outcome.status = "ok"
     THEN /\ Settle(r, CaptionFetch)
          /\ generated' = [generated EXCEPT ![r] =
                             [text |-> outcome.text, confidence |-> outcome.confidence]]
          /\ Goto(r, "caption", "semantic")
          /\ UNCHANGED <<azureVisionResult, failures>>
     ELSE IF issued[r][CaptionFetch] < 2
     THEN /\ Call(r, {CaptionFetch})
          /\ Fail(r, CaptionFetch)
          /\ UNCHANGED <<pc, generated, azureVisionResult>>
     ELSE /\ Settle(r, CaptionFetch)
          /\ azureVisionResult' = [azureVisionResult EXCEPT ![r] = CaptionFallback]
          /\ Fail(r, CaptionFetch)
          /\ Goto(r, "multimodal", "start")
          /\ UNCHANGED generated
  /\ UNCHANGED <<vectorized, request, multimodalResult, gpt4oResult, results, modelIndex,
                 embeddingComparison, response>>

\* The caption fetch returns.
CaptionReturn(r, outcome) ==
  /\ pc[r] = <<"caption", "fetch">>
  /\ CaptionFetch \in outstanding[r]
  /\ Settle(r, CaptionFetch)
  /\ IF outcome.status = "ok"
     THEN /\ generated' = [generated EXCEPT ![r] =
                             [text |-> outcome.text, confidence |-> outcome.confidence]]
          /\ Goto(r, "caption", "semantic")
          /\ UNCHANGED <<azureVisionResult, failures>>
     ELSE /\ azureVisionResult' = [azureVisionResult EXCEPT ![r] = CaptionFallback]
          /\ Fail(r, CaptionFetch)
          /\ Goto(r, "multimodal", "start")
          /\ UNCHANGED generated
  /\ UNCHANGED <<vectorized, request, multimodalResult, gpt4oResult, results, modelIndex,
                 embeddingComparison, response>>

\* The caller of calculateSemanticSimilarity takes its result.
SemanticDone(r, similarity) ==
  IF pc[r][1] = "caption"
  THEN /\ azureVisionResult' = [azureVisionResult EXCEPT ![r] =
                                  [similarity |-> similarity,
                                   generatedCaption |-> generated[r].text,
                                   confidence |-> generated[r].confidence]]
       /\ Goto(r, "multimodal", "start")
       /\ UNCHANGED gpt4oResult
  ELSE /\ gpt4oResult' = [gpt4oResult EXCEPT ![r] =
                            [similarity |-> similarity,
                             generatedDescription |-> generated[r].text]]
       /\ Goto(r, "compare", "start")
       /\ UNCHANGED azureVisionResult

\* calculateSemanticSimilarity(generated text, prompt) up to its Promise.all.
SemanticStart(r) ==
  /\ pc[r][2] = "semantic"
  /\ IF env.openai
     THEN /\ Call(r, SemanticSites(pc[r][1]))
          /\ Goto(r, pc[r][1], "embed")
          /\ UNCHANGED <<azureVisionResult, gpt4oResult>>
     ELSE /\ SemanticDone(r, SemanticFallback(generated[r].text, request[r].prompt))
          /\ NoCall
  /\ UNCHANGED <<vectorized, request, failures, generated, multimodalResult, results,
                 modelIndex, embeddingComparison, response>>

\* One getTextEmbedding call of calculateSemanticSimilarity returns.
SemanticReturn(r, site, outcome) ==
  /\ pc[r][2] = "embed"
  /\ site \in outstanding[r]
  /\ IF outcome.status # "ok"
     THEN /\ Settle(r, site)
          /\ Fail(r, site)
          /\ SemanticDone(r, SemanticFallback(generated[r].text, request[r].prompt))
     ELSE IF outstanding[r] = {site}
     THEN LET all == (site :> outcome) @@ returned[r]
          IN  /\ Settle(r, site)
              /\ SemanticDone(r, SemanticSimilarity(generated[r].text,
                                                    request[r].prompt,
                                                    all[<<pc[r][1], "text1">>],
                                                    all[<<pc[r][1], "text2">>]))
              /\ UNCHANGED failures
     ELSE /\ Keep(r, site, outcome)
          /\ UNCHANGED <<pc, azureVisionResult, gpt4oResult, failures>>
  /\ UNCHANGED <<vectorized, request, generated, multimodalResult, results, modelIndex,
                 embeddingComparison, response>>

\* calculateMultimodalSimilarity up to its Promise.all.
MultimodalStart(r) ==
  /\ pc[r] = <<"multimodal", "start">>
  /\ IF env.vision
     THEN /\ Call(r, {ImageVector, TextVector})
          /\ Goto(r, "multimodal", "await")
          /\ UNCHANGED multimodalResult
     ELSE /\ multimodalResult' = [multimodalResult EXCEPT ![r] = Null]
          /\ Goto(r, "gpt4o", "start")
          /\ NoCall
  /\ UNCHANGED <<vectorized, request, failures, generated, azureVisionResult, gpt4oResult,
                 results, modelIndex, embeddingComparison, response>>

\* getImageEmbedding or getTextEmbeddingFromVision returns: a vector, or
\* null after a failure.
MultimodalReturn(r, site, outcome) ==
  /\ pc[r] = <<"multimodal", "await">>
  /\ site \in outstanding[r]
  /\ IF outcome.status # "ok"
     THEN Fail(r, site) /\ UNCHANGED vectorized
     ELSE /\ vectorized' = [vectorized EXCEPT ![r] = (site :> Len(outcome.vector)) @@ @]
          /\ UNCHANGED failures
  /\ IF outstanding[r] = {site}
     THEN LET all == (site :> outcome) @@ returned[r]
          IN  /\ Settle(r, site)
              /\ multimodalResult' = [multimodalResult EXCEPT ![r] =
                   MultimodalSimilarity(all[ImageVector], all[TextVector])]
              /\ Goto(r, "gpt4o", "start")
     ELSE /\ Keep(r, site, outcome)
          /\ UNCHANGED <<pc, multimodalResult>>
  /\ UNCHANGED <<request, generated, azureVisionResult, gpt4oResult, results,
                 modelIndex, embeddingComparison, response>>

\* calculateGPT4oDescriptionSimilarity up to its fetch.
Gpt4oStart(r) ==
  /\ pc[r] = <<"gpt4o", "start">>
  /\ IF env.gpt4o
     THEN /\ Call(r, {ChatFetch})
          /\ Goto(r, "gpt4o", "fetch")
          /\ UNCHANGED gpt4oResult
     ELSE /\ gpt4oResult' = [gpt4oResult EXCEPT ![r] = Null]
          /\ Goto(r, "compare", "start")
          /\ NoCall
  /\ UNCHANGED <<vectorized, request, failures, generated, azureVisionResult, multimodalResult,
                 results, modelIndex, embeddingComparison, response>>

\* The chat completion fetch returns.
ChatReturn(r, outcome) ==
  /\ pc[r] = <<"gpt4o", "fetch">>
  /\ ChatFetch \in outstanding[r]
  /\ Settle(r, ChatFetch)
  /\ IF outcome.status = "ok"
     THEN /\ generated' = [generated EXCEPT ![r] =
                             [text |-> outcome.text]]
          /\ Goto(r, "gpt4o", "semantic")
          /\ UNCHANGED <<gpt4oResult, failures>>
     ELSE /\ gpt4oResult' = [gpt4oResult EXCEPT ![r] = DescriptionFailure]
          /\ Fail(r, ChatFetch)
          /\ Goto(r, "compare", "start")
          /\ UNCHANGED generated
  /\ UNCHANGED <<vectorized, request, azureVisionResult, multimodalResult, results, modelIndex,
                 embeddingComparison, response>>

\* calculateEmbeddingModelComparison up to its loop.
CompareStart(r) ==
  /\ pc[r] = <<"compare", "start">>
  /\ IF env.openai
     THEN /\ results' = [results EXCEPT ![r] = <<>>]
          /\ modelIndex' = [modelIndex EXCEPT ![r] = 1]
          /\ Goto(r, "compare", "model")
          /\ UNCHANGED embeddingComparison
     ELSE /\ embeddingComparison' = [embeddingComparison EXCEPT ![r] = Null]
          /\ Goto(r, "post", "respond")
          /\ UNCHANGED <<results, modelIndex>>
  /\ NoCall
  /\ UNCHANGED <<vectorized, request, failures, generated, azureVisionResult, multimodalResult,
                 gpt4oResult, response>>

\* Variant: the calls of every model are issued at once.
CompareModel_AllModels(r) ==
  /\ pc[r] = <<"compare", "model">>
  /\ IF modelIndex[r] \in DOMAIN embeddingModels
     THEN LET gpt4oDescription == DescriptionArgument(gpt4oResult[r])
          IN  /\ Call(r, {s \in ComparisonSites :
                            s[2] = "description" => gpt4oDescription # <<>>})
              /\ Goto(r, "compare", "await")
              /\ UNCHANGED embeddingComparison
     ELSE /\ embeddingComparison' = [embeddingComparison EXCEPT ![r] = results[r]]
          /\ Goto(r, "post", "respond")
          /\ NoCall
  /\ UNCHANGED <<vectorized, request, failures, generated, azureVisionResult, multimodalResult,
                 gpt4oResult, results, modelIndex, response>>

\* The head of the loop over embeddingModels: the next model's Promise.all,
\* or the return of results after the last model.
CompareModel(r) ==
  /\ pc[r] = <<"compare", "model">>
  /\ IF modelIndex[r] \in DOMAIN embeddingModels
     THEN LET key == embeddingModels[modelIndex[r]].key
              gpt4oDescription == DescriptionArgument(gpt4oResult[r])
          IN  /\ Call(r, {<<key, "prompt">>, <<key, "caption">>}
                           \cup IF gpt4oDescription # <<>>
                                THEN {<<key, "description">>} ELSE {})
              /\ Goto(r, "compare", "await")
              /\ UNCHANGED embeddingComparison
     ELSE /\ embeddingComparison' = [embeddingComparison EXCEPT ![r] = results[r]]
          /\ Goto(r, "post", "respond")
          /\ NoCall
  /\ UNCHANGED <<vectorized, request, failures, generated, azureVisionResult, multimodalResult,
                 gpt4oResult, results, modelIndex, response>>

\* One getTextEmbeddingWithModel call of the current model returns.
CompareReturn(r, site, outcome) ==
  /\ pc[r] = <<"compare", "await">>
  /\ site \in outstanding[r]
  /\ LET model == embeddingModels[modelIndex[r]]
         all == (site :> outcome) @@ returned[r]
     IN  IF outcome.status # "ok"
         THEN /\ Settle(r, site)
              /\ Fail(r, site)
              /\ results' = [results EXCEPT ![r] = CatchModel(@, model)]
              /\ modelIndex' = [modelIndex EXCEPT ![r] = @ + 1]
              /\ Goto(r, "compare", "model")
         ELSE IF outstanding[r] = {site}
         THEN /\ Settle(r, site)
              /\ results' = [results EXCEPT ![r] =
                   (model.key :>
                      ModelEntry(model, all[<<model.key, "prompt">>],
                                 all[<<model.key, "caption">>],
                                 IF <<model.key, "description">> \in DOMAIN all
                                 THEN all[<<model.key, "description">>] ELSE Null))
                   @@ @]
              /\ modelIndex' = [modelIndex EXCEPT ![r] = @ + 1]
              /\ Goto(r, "compare", "model")
              /\ UNCHANGED failures
         ELSE /\ Keep(r, site, outcome)
              /\ UNCHANGED <<pc, results, modelIndex, failures>>
  /\ UNCHANGED <<vectorized, request, generated, azureVisionResult, multimodalResult,
                 gpt4oResult, embeddingComparison, response>>

\* Variant: POST rethrows a failed caption to its catch block.
Respond_RethrowsCaptionFailure(r) ==
  /\ pc[r] = <<"post", "respond">>
  /\ response' = [response EXCEPT ![r] =
                    IF azureVisionResult[r].generatedCaption = <<>>
                    THEN ServerError
                    ELSE ScoringResponse(azureVisionResult[r], multimodalResult[r],
                                         gpt4oResult[r], embeddingComparison[r])]
  /\ Goto(r, "post", "done")
  /\ NoCall
  /\ UNCHANGED <<vectorized, request, failures, generated, azureVisionResult,
                 multimodalResult, gpt4oResult, results, modelIndex,
                 embeddingComparison>>

\* POST after its last await: the success response.
Respond(r) ==
  /\ pc[r] = <<"post", "respond">>
  /\ response' = [response EXCEPT ![r] =
                    ScoringResponse(azureVisionResult[r], multimodalResult[r],
                                    gpt4oResult[r], embeddingComparison[r])]
  /\ Goto(r, "post", "done")
  /\ NoCall
  /\ UNCHANGED <<vectorized, request, failures, generated, azureVisionResult, multimodalResult,
                 gpt4oResult, results, modelIndex, embeddingComparison>>

\* ------------------------------------------------------ the pure functions
\* calculateBasicTextSimilarity and calculateCosineSimilarity on their own:
\* the arguments are any texts of up to MaxLen characters, or any vectors of
\* up to MaxDim components between -MaxComponent and MaxComponent.
MaxLen == 3
MaxDim == 2
MaxComponent == 1
Alphabet == {"a", "b", "A", " "}
Texts == UNION {[1 .. n -> Alphabet] : n \in 0 .. MaxLen}
Vectors == UNION {[1 .. n -> -MaxComponent .. MaxComponent] : n \in 0 .. MaxDim}
TextCalls == {[fn |-> "basic", text1 |-> t1, text2 |-> t2] : t1, t2 \in Texts}
VectorCalls == {[fn |-> "cosine", vector1 |-> v1, vector2 |-> v2] : v1, v2 \in Vectors}

InitCalls ==
  /\ pureInput \in TextCalls \cup VectorCalls
  /\ pureOutput = Pending
  /\ env = [vision |-> FALSE, openai |-> FALSE, gpt4o |-> FALSE]
  /\ family = {}
  /\ InitRequests
  /\ InitBlip
  /\ InitEditor
  /\ InitVideo

ApplyBasicTextSimilarity ==
  /\ pureOutput = Pending
  /\ pureInput.fn = "basic"
  /\ pureOutput' = Returned(calculateBasicTextSimilarity(pureInput.text1, pureInput.text2))
  /\ UNCHANGED <<pureInput, outsidePure>>

ApplyCosineSimilarity ==
  /\ pureOutput = Pending
  /\ pureInput.fn = "cosine"
  /\ pureOutput' = calculateCosineSimilarity(pureInput.vector1, pureInput.vector2)
  /\ UNCHANGED <<pureInput, outsidePure>>

PureNext == ApplyBasicTextSimilarity \/ ApplyCosineSimilarity

SpecPure == InitCalls /\ [][PureNext]_vars

\* ------------------------------------------------- the iterative editor
\* The page of the iterative editor: one user, at most MaxUploads uploaded
\* images and MaxEdits edit requests.  Every object URL and every edit
\* result is a new URL.
MaxUploads == 2
MaxEdits == 3
EditorFiles == {"image/png", "text/plain"}
EditorPrompts == {<<"p">>, <<" ">>, <<>>}
ObjectUrl(k) == <<"blob", k>>
EditedUrl(k) == <<"edit", k>>

\* handleFile: a file is chosen or dropped.
handleFile(file) ==
  /\ IF file # "image/png"
     THEN /\ error' = "Please select a valid image file (PNG, JPG, etc.)"
          /\ UNCHANGED <<originalPreview, currentImageUrl, history, created>>
     ELSE /\ created.uploads < MaxUploads
          /\ created' = [created EXCEPT !.uploads = @ + 1]
          /\ originalPreview' = ObjectUrl(created.uploads + 1)
          /\ currentImageUrl' = ObjectUrl(created.uploads + 1)
          /\ error' = ""
          /\ history' = [edits |-> <<>>, currentIndex |-> -1]
  /\ UNCHANGED <<editPrompt, isEditing, closure>>
  /\ UNCHANGED outsideEditor

\* clearImage: "Remove image", shown while an image is loaded.
clearImage ==
  /\ originalPreview # NoUrl
  /\ originalPreview' = NoUrl
  /\ currentImageUrl' = NoUrl
  /\ history' = [edits |-> <<>>, currentIndex |-> -1]
  /\ error' = ""
  /\ editPrompt' = <<>>
  /\ UNCHANGED <<isEditing, closure, created>>
  /\ UNCHANGED outsideEditor

\* The edit instruction is typed; the field is shown while an image is
\* loaded and disabled while an edit is in flight.
setEditPrompt(text) ==
  /\ originalPreview # NoUrl
  /\ ~isEditing
  /\ editPrompt' = text
  /\ UNCHANGED <<originalPreview, currentImageUrl, isEditing, history, error, closure,
                 created>>
  /\ UNCHANGED outsideEditor

\* applyEdit up to its first await.  The button is shown while an image is
\* loaded and disabled while an edit is in flight or the instruction is
\* blank.  What the function uses after its awaits are the values of this
\* render: history and editPrompt.  `base` records which uploaded image the
\* edited image descends from.
applyEdit ==
  /\ originalPreview # NoUrl
  /\ ~isEditing
  /\ Trim(editPrompt) # <<>>
  /\ created.edits < MaxEdits
  /\ IF currentImageUrl = NoUrl \/ Trim(editPrompt) = <<>>
     THEN /\ error' = "Please upload an image and enter an edit prompt"
          /\ UNCHANGED <<isEditing, closure>>
     ELSE /\ isEditing' = TRUE
          /\ error' = ""
          /\ closure' = [history |-> history,
                         editPrompt |-> editPrompt,
                         base |-> IF history.currentIndex = -1 THEN originalPreview
                                  ELSE history.edits[history.currentIndex + 1].base]
  /\ UNCHANGED <<originalPreview, currentImageUrl, editPrompt, history, created>>
  /\ UNCHANGED outsideEditor

\* Variant: the new edit is appended without discarding the entries after
\* the cursor.
NewHistory_KeepsFuture(old, newEdit) ==
  [edits |-> Append(old.edits, newEdit), currentIndex |-> Len(old.edits)]

\* The history applyEdit builds from the history it captured: the entries
\* after the cursor are dropped, the new edit is pushed, the cursor moves to
\* it.  (Indices of the source start at 0, those of a sequence at 1.)
NewHistory(old, newEdit) ==
  LET kept == IF old.currentIndex < Len(old.edits) - 1
              THEN SubSeq(old.edits, 1, old.currentIndex + 1)
              ELSE old.edits
  IN  [edits |-> Append(kept, newEdit), currentIndex |-> Len(kept)]

\* applyEdit after its awaits: the edit request has answered with an image,
\* or something on the way has failed.
applyEditReturn(ok) ==
  /\ closure # Null
  /\ IF ok
     THEN LET newEdit == [url |-> EditedUrl(created.edits + 1),
                          editPrompt |-> closure.editPrompt,
                          base |-> closure.base]
          IN  /\ history' = NewHistory(closure.history, newEdit)
              /\ currentImageUrl' = newEdit.url
              /\ editPrompt' = <<>>
              /\ created' = [created EXCEPT !.edits = @ + 1]
              /\ UNCHANGED error
     ELSE /\ error' = "Failed to edit image"
          /\ UNCHANGED <<history, currentImageUrl, editPrompt, created>>
  /\ isEditing' = FALSE
  /\ closure' = Null
  /\ UNCHANGED originalPreview
  /\ UNCHANGED outsideEditor

\* Variant: the cursor moves, the displayed image stays.
goToHistoryStep_CursorOnly(index) ==
  /\ IF index = -1 \/ (index >= 0 /\ index < Len(history.edits))
     THEN history' = [history EXCEPT !.currentIndex = index]
     ELSE UNCHANGED history
  /\ UNCHANGED currentImageUrl

goToHistoryStep(index) ==
  IF index = -1
  THEN /\ currentImageUrl' = originalPreview
       /\ history' = [history EXCEPT !.currentIndex = -1]
  ELSE IF index >= 0 /\ index < Len(history.edits)
  THEN /\ currentImageUrl' = history.edits[index + 1].url
       /\ history' = [history EXCEPT !.currentIndex = index]
  ELSE UNCHANGED <<currentImageUrl, history>>

\* A step of the history panel is clicked; the panel is shown while an
\* image is loaded.
selectHistoryStep(index) ==
  /\ originalPreview # NoUrl
  /\ index \in -1 .. Len(history.edits) - 1
  /\ goToHistoryStep(index)
  /\ UNCHANGED <<originalPreview, editPrompt, isEditing, error, closure, created>>
  /\ UNCHANGED outsideEditor

\* Undo and Redo are shown while an image is loaded and the history has an
\* entry.
undoEdit ==
  /\ originalPreview # NoUrl /\ Len(history.edits) > 0
  /\ history.currentIndex > -1
  /\ goToHistoryStep(history.currentIndex - 1)
  /\ UNCHANGED <<originalPreview, editPrompt, isEditing, error, closure, created>>
  /\ UNCHANGED outsideEditor

redoEdit ==
  /\ originalPreview # NoUrl /\ Len(history.edits) > 0
  /\ history.currentIndex < Len(history.edits) - 1
  /\ goToHistoryStep(history.currentIndex + 1)
  /\ UNCHANGED <<originalPreview, editPrompt, isEditing, error, closure, created>>
  /\ UNCHANGED outsideEditor

InitPage ==
  /\ InitEditor
  /\ env = [vision |-> FALSE, openai |-> FALSE, gpt4o |-> FALSE]
  /\ family = {}
  /\ InitRequests
  /\ InitBlip
  /\ InitPure
  /\ InitVideo

EditorNext ==
  \/ \E file \in EditorFiles : handleFile(file)
  \/ clearImage
  \/ \E text \in EditorPrompts : setEditPrompt(text)
  \/ applyEdit
  \/ \E ok \in BOOLEAN : applyEditReturn(ok)
  \/ \E index \in -1 .. MaxEdits - 1 : selectHistoryStep(index)
  \/ undoEdit
  \/ redoEdit

SpecEditor == InitPage /\ [][EditorNext]_vars

\* --------------------------------------------------------- the video route
\* POST of the video route and pollJobStatus, for one request.
maxAttempts == 60

VideoInputs == [parsed : BOOLEAN, hasPrompt : BOOLEAN, configured : BOOLEAN]
FetchOutcomes == {"ok", "http error", "network error"}
ContentOutcomes == FetchOutcomes \cup {"save failed"}
JobStatuses ==
  {"queued", "preprocessing", "running", "processing", "succeeded", "failed", "cancelled"}
\* What a status request can come back with: a thrown fetch, a non-2xx
\* response, or a job in some status (a succeeded job with or without
\* generations).
StatusOutcomes ==
  {[ok |-> FALSE, status |-> st, generations |-> 0] :
     st \in {"http error", "network error"}}
    \cup {[ok |-> TRUE, status |-> st, generations |-> 0] : st \in JobStatuses}
    \cup {[ok |-> TRUE, status |-> "succeeded", generations |-> 1]}

VideoError(status, message) == [status |-> status, error |-> message]
VideoCreated == [status |-> 200, error |-> ""]
TimedOut == VideoError(500, "Video generation timed out")

\* Variant: a failed or cancelled job is polled again like a running one.
PollVerdict_IgnoresFailure(outcome) ==
  IF ~outcome.ok THEN "throw"
  ELSE IF outcome.status = "succeeded" THEN "return"
  ELSE "continue"

\* What pollJobStatus does with the answer of one status request.
PollVerdict(outcome) ==
  IF ~outcome.ok THEN "throw"
  ELSE IF outcome.status = "succeeded" THEN "return"
  ELSE IF outcome.status \in {"failed", "cancelled"} THEN "throw"
  ELSE "continue"

\* Variant: the wait follows every attempt.
ShouldWait_Always(a) == TRUE

\* if (attempt < maxAttempts - 1): the wait before the next poll.
ShouldWait(a) == a < maxAttempts - 1

\* The head of the for loop with attempt = a: the next status request, or
\* the throw after the loop, which POST's catch block answers.
LoopHead(a) ==
  /\ attempt' = a
  /\ IF a < maxAttempts
     THEN /\ polls' = polls + 1
          /\ videoPc' = "poll"
          /\ UNCHANGED videoResponse
     ELSE /\ videoPc' = "done"
          /\ videoResponse' = TimedOut
          /\ UNCHANGED polls

\* POST up to its first fetch.
VideoPOST(input) ==
  /\ videoPc = "idle"
  /\ IF ~input.parsed
     THEN videoPc' = "done" /\ videoResponse' = VideoError(500, "Internal server error")
     ELSE IF ~input.hasPrompt
     THEN videoPc' = "done" /\ videoResponse' = VideoError(400, "Video prompt is required")
     ELSE IF ~input.configured
     THEN /\ videoPc' = "done"
          /\ videoResponse' = VideoError(500, "Azure OpenAI Sora configuration is missing")
     ELSE videoPc' = "create" /\ UNCHANGED videoResponse
  /\ UNCHANGED <<attempt, polls, waits, contentRequests, statusData>>
  /\ UNCHANGED outsideVideo

\* The request that creates the job returns; on success pollJobStatus
\* starts.
CreateReturn(outcome) ==
  /\ videoPc = "create"
  /\ IF outcome = "ok" THEN LoopHead(0)
     ELSE /\ videoPc' = "done"
          /\ videoResponse' = IF outcome = "http error" THEN VideoError(429, "API Error")
                              ELSE VideoError(500, "fetch failed")
          /\ UNCHANGED <<attempt, polls>>
  /\ UNCHANGED <<waits, contentRequests, statusData>>
  /\ UNCHANGED outsideVideo

\* A status request returns: pollJobStatus throws, returns the job to POST
\* (which requests the content of its first generation), waits, or goes to
\* the next attempt.
StatusReturn(outcome) ==
  /\ videoPc = "poll"
  /\ statusData' = outcome
  /\ IF PollVerdict(outcome) = "throw"
     THEN /\ videoPc' = "done"
          /\ videoResponse' =
               IF ~outcome.ok THEN VideoError(500, "Failed to check job status")
               ELSE VideoError(500, "Video generation " \o outcome.status)
          /\ UNCHANGED <<attempt, polls, waits, contentRequests>>
     ELSE IF PollVerdict(outcome) = "return"
     THEN /\ IF outcome.generations > 0
             THEN /\ contentRequests' = contentRequests + 1
                  /\ videoPc' = "content"
                  /\ UNCHANGED videoResponse
             ELSE /\ videoPc' = "done"
                  /\ videoResponse' =
                       VideoError(500, "No video generations found in completed job")
                  /\ UNCHANGED contentRequests
          /\ UNCHANGED <<attempt, polls, waits>>
     ELSE IF ShouldWait(attempt)
     THEN /\ videoPc' = "wait"
          /\ waits' = waits + 1
          /\ UNCHANGED <<attempt, polls, contentRequests, videoResponse>>
     ELSE /\ LoopHead(attempt + 1)
          /\ UNCHANGED <<waits, contentRequests>>
  /\ UNCHANGED outsideVideo

\* The timer of the wait fires: attempt++ and the head of the loop.
TimerFires ==
  /\ videoPc = "wait"
  /\ LoopHead(attempt + 1)
  /\ UNCHANGED <<waits, contentRequests, statusData>>
  /\ UNCHANGED outsideVideo

\* The content request returns, and the video is saved.
ContentReturn(outcome) ==
  /\ videoPc = "content"
  /\ videoPc' = "done"
  /\ videoResponse' =
       IF outcome = "ok" THEN VideoCreated
       ELSE IF outcome = "http error" THEN VideoError(500, "Failed to retrieve video")
       ELSE VideoError(500, "Internal server error")
  /\ UNCHANGED <<attempt, polls, waits, contentRequests, statusData>>
  /\ UNCHANGED outsideVideo

InitJob ==
  /\ InitVideo
  /\ env = [vision |-> FALSE, openai |-> FALSE, gpt4o |-> FALSE]
  /\ family = {}
  /\ InitRequests
  /\ InitBlip
  /\ InitPure
  /\ InitEditor

VideoNext ==
  \/ \E input \in VideoInputs : VideoPOST(input)
  \/ \E outcome \in FetchOutcomes : CreateReturn(outcome)
  \/ \E outcome \in StatusOutcomes : StatusReturn(outcome)
  \/ TimerFires
  \/ \E outcome \in ContentOutcomes : ContentReturn(outcome)

SpecVideo == InitJob /\ [][VideoNext]_vars

\* Every request, every fetch and every timer comes to its end.
SpecVideoLive == InitJob /\ [][VideoNext]_vars /\ WF_vars(VideoNext)

\* ------------------------------------- the subprocess-based scorer (BLIP)
\* Time passes: Date.now() moves on by a millisecond.
Tick ==
  /\ now < MaxNow
  /\ now' = now + 1
  /\ UNCHANGED <<tempImagePath, tempFiles, pythonProcess, loaded, blipSimilarity>>
  /\ UNCHANGED outsideBlip

\* calculateBlipSimilarity up to the return of its promise: the temporary
\* file is named after Date.now(), written, and the scorer process spawned.
calculateBlipSimilarity(r) ==
  /\ pythonProcess[r] = "none"
  /\ tempImagePath' = [tempImagePath EXCEPT ![r] = TempPath(now)]
  /\ tempFiles' = [tempFiles EXCEPT ![TempPath(now)] = imageBuffer(r)]
  /\ pythonProcess' = [pythonProcess EXCEPT ![r] = "spawned"]
  /\ UNCHANGED <<now, loaded, blipSimilarity>>
  /\ UNCHANGED outsideBlip

\* The scorer process opens the file it was given and runs to its exit.
ScorerLoad(r) ==
  /\ pythonProcess[r] = "spawned"
  /\ loaded' = [loaded EXCEPT ![r] =
                  IF tempFiles[tempImagePath[r]] = NoFile THEN FileNotFound
                  ELSE tempFiles[tempImagePath[r]]]
  /\ pythonProcess' = [pythonProcess EXCEPT ![r] = "exited"]
  /\ UNCHANGED <<now, tempImagePath, tempFiles, blipSimilarity>>
  /\ UNCHANGED outsideBlip

\* pythonProcess.on('error'): the process could not be started; the promise
\* is rejected and the temporary file stays.
OnError(r) ==
  /\ pythonProcess[r] = "spawned"
  /\ pythonProcess' = [pythonProcess EXCEPT ![r] = "failed"]
  /\ blipSimilarity' = [blipSimilarity EXCEPT ![r] = "rejected"]
  /\ UNCHANGED <<now, tempImagePath, tempFiles, loaded>>
  /\ UNCHANGED outsideBlip

\* pythonProcess.on('close'): the temporary file is unlinked (a failure to
\* unlink is only logged), then the promise settles by the exit code.
OnClose(r) ==
  /\ pythonProcess[r] = "exited"
  /\ tempFiles' = [tempFiles EXCEPT ![tempImagePath[r]] = NoFile]
  /\ blipSimilarity' = [blipSimilarity EXCEPT ![r] =
                          IF loaded[r] = FileNotFound THEN "rejected" ELSE "resolved"]
  /\ pythonProcess' = [pythonProcess EXCEPT ![r] = "closed"]
  /\ UNCHANGED <<now, tempImagePath, loaded>>
  /\ UNCHANGED outsideBlip

\* Requests of the subprocess-based scorer handled at the same time; the
\* other route stays idle.
InitScorer ==
  /\ env = [vision |-> FALSE, openai |-> FALSE, gpt4o |-> FALSE]
  /\ family = {}
  /\ InitRequests
  /\ InitBlip
  /\ InitPure
  /\ InitEditor
  /\ InitVideo

BlipNext ==
  \/ Tick
  \/ \E r \in Requests : calculateBlipSimilarity(r)
  \/ \E r \in Requests : ScorerLoad(r)
  \/ \E r \in Requests : OnError(r)
  \/ \E r \in Requests : OnClose(r)

SpecBlip == InitScorer /\ [][BlipNext]_vars

\* ------------------------------------------------------------------ events
\* What can happen to a request: a step of its handler, or the return of one
\* of its provider calls with some outcome.
Events ==
  {[act |-> "POST", input |-> i] : i \in Inputs}
    \cup {[act |-> "Decode", ok |-> b] : b \in BOOLEAN}
    \cup {[act |-> a] : a \in {"CaptionStart", "SemanticStart", "MultimodalStart",
                               "Gpt4oStart", "CompareStart", "CompareModel",
                               "Respond"}}
    \cup {[act |-> "CaptionReturn", site |-> CaptionFetch, outcome |-> o] :
            o \in CaptionOutcomes}
    \cup {[act |-> "ChatReturn", site |-> ChatFetch, outcome |-> o] :
            o \in ChatOutcomes}
    \cup UNION {{[act |-> "SemanticReturn", site |-> s, outcome |-> o] :
                    o \in VectorOutcomes(s)} :
                 s \in SemanticSites("caption") \cup SemanticSites("gpt4o")}
    \cup UNION {{[act |-> "MultimodalReturn", site |-> s, outcome |-> o] :
                    o \in VectorOutcomes(s)} : s \in {ImageVector, TextVector}}
    \cup UNION {{[act |-> "CompareReturn", site |-> s, outcome |-> o] :
                    o \in VectorOutcomes(s)} : s \in ComparisonSites}

\* A step of request r.  env never changes; echo and family are SpecTwin's,
\* and the subprocess-based scorer is another route.
Quiet(e) == echo' = e /\ UNCHANGED <<env, family, outsideRoute>>

Step(r, ev, e) ==
  \/ ev.act = "POST" /\ POST(r, ev.input) /\ Quiet(e)
  \/ ev.act = "Decode" /\ Decode(r, ev.ok) /\ Quiet(e)
  \/ ev.act = "CaptionStart" /\ CaptionStart(r) /\ Quiet(e)
  \/ ev.act = "CaptionReturn" /\ CaptionReturn(r, ev.outcome) /\ Quiet(e)
  \/ ev.act = "SemanticStart" /\ SemanticStart(r) /\ Quiet(e)
  \/ ev.act = "SemanticReturn" /\ SemanticReturn(r, ev.site, ev.outcome) /\ Quiet(e)
  \/ ev.act = "MultimodalStart" /\ MultimodalStart(r) /\ Quiet(e)
  \/ ev.act = "MultimodalReturn" /\ MultimodalReturn(r, ev.site, ev.outcome) /\ Quiet(e)
  \/ ev.act = "Gpt4oStart" /\ Gpt4oStart(r) /\ Quiet(e)
  \/ ev.act = "ChatReturn" /\ ChatReturn(r, ev.outcome) /\ Quiet(e)
  \/ ev.act = "CompareStart" /\ CompareStart(r) /\ Quiet(e)
  \/ ev.act = "CompareModel" /\ CompareModel(r) /\ Quiet(e)
  \/ ev.act = "CompareReturn" /\ CompareReturn(r, ev.site, ev.outcome) /\ Quiet(e)
  \/ ev.act = "Respond" /\ Respond(r) /\ Quiet(e)

\* One request, served from its arrival to its response.
Next == \E ev \in Events : Step(1, ev, NoEvent)

Spec == Init /\ [][Next]_vars

\* ------------------------------------------------------------- scheduling
\* The event loop runs a handler whose awaited promise has settled: a step
\* of the handler that waits for no provider is taken sooner or later.
\* Nothing in the code makes a provider answer (no fetch has a timeout).
ReturnEvents ==
  {ev \in Events : ev.act \in {"CaptionReturn", "SemanticReturn", "MultimodalReturn",
                               "ChatReturn", "CompareReturn"}}
HandlerEvents == {ev \in Events \ ReturnEvents : ev.act # "POST"}
HandlerStep == \E ev \in HandlerEvents : Step(1, ev, NoEvent)
ReturnStep == \E ev \in ReturnEvents : Step(1, ev, NoEvent)

\* Providers may keep a call waiting for ever.
SpecHandler == Init /\ [][Next]_vars /\ WF_vars(HandlerStep)

\* Every provider call returns or fails.
SpecLive == Init /\ [][Next]_vars /\ WF_vars(HandlerStep) /\ WF_vars(ReturnStep)

\* ------------------------------------------------------------ two requests
\* Requests 1 and 2 receive the same form data and the same outcome from
\* every provider call, except the calls in `family`, which return to each
\* request on their own, with any outcome.  Every other event happens to
\* request 1 and is then replayed by request 2.
Families == {{ImageVector}} \cup {ModelSites(k) : k \in ModelKeys}

InitTwin ==
  /\ env \in [vision : BOOLEAN, openai : BOOLEAN, gpt4o : BOOLEAN]
  /\ family \in Families
  /\ InitRequests
  /\ InitBlip
  /\ InitPure
  /\ InitEditor
  /\ InitVideo

\* In SpecTwin the embedding models of the comparison return vectors of one
\* length.
TwinEvents ==
  {ev \in Events :
     ev.act = "CompareReturn" /\ ev.outcome.status = "ok"
       => Len(ev.outcome.vector) = Len(PromptVector)}
OwnEvents == {ev \in TwinEvents : "site" \in DOMAIN ev /\ ev.site \in family}
SharedEvents == TwinEvents \ OwnEvents

TwinNext ==
  \/ \E r \in Requests : \E ev \in {e \in OwnEvents : echo = NoEvent} :
        Step(r, ev, NoEvent)
  \/ \E ev \in {e \in SharedEvents : echo = NoEvent} : Step(1, ev, ev)
  \/ Step(2, echo, NoEvent)

SpecTwin == InitTwin /\ [][TwinNext]_vars
\* ------------------------------------------------------------- properties
Answered(r) == response[r] # Pending
Succeeded(r) == Answered(r) /\ response[r].success
IsNumber(x) == DOMAIN x = {"n", "d2"}
ValueOrAbsent(x) == x = Null \/ IsNumber(x)
EmbedCall(branch) == <<branch, "embed">>

\* The handler of r is past validation and decoding and has not answered.
Scoring(r) ==
  \/ pc[r][1] \in {"caption", "multimodal", "gpt4o", "compare"}
  \/ pc[r] = <<"post", "respond">>

\* C1: once validation and decoding have succeeded, every step of the
\* handler either goes on scoring without an answer or answers with
\* success = true, each branch contributing a value or an absent field,
\* whichever provider calls fail; a success = false answer is given only
\* when no provider call has been issued.
C1_ProviderFailuresNeverFailTheRequest ==
  [][\A r \in Requests :
       /\ Scoring(r) =>
            IF pc'[r] = <<"post", "done">>
            THEN /\ response'[r].success
                 /\ IsNumber(response'[r].scores.azureVisionSimilarity)
                 /\ ValueOrAbsent(response'[r].scores.azureMultimodalSimilarity)
                 /\ ValueOrAbsent(response'[r].scores.gpt4oDescriptionSimilarity)
                 /\ \/ response'[r].embeddingComparison = Null
                    \/ DOMAIN response'[r].embeddingComparison = ModelKeys
            ELSE response'[r] = Pending
       /\ response'[r] # Pending /\ ~response'[r].success =>
            \A s \in AllSites : issued'[r][s] = 0]_vars

\* A success response after the caption fetch, both vectorize calls, the
\* chat completion and an embedding call of every model have failed.
C1_AllProvidersFailed ==
  /\ Succeeded(1)
  /\ failures[1] = {CaptionFetch, ImageVector, TextVector, ChatFetch}
                     \cup {EmbedCall(k) : k \in ModelKeys}

InvalidRequest(input) ==
  /\ input.parsed
  /\ \/ input.image = "missing"
     \/ ~input.hasPrompt
     \/ input.prompt = <<>>
     \/ input.image = "text/plain"

\* C2: a request without image, without prompt, with an empty prompt or
\* with a file that is no image is answered with success = false and an
\* error message, and no provider call is issued for it.
C2_InvalidRequestRejectedBeforeAnyCall ==
  \A r \in Requests :
    request[r] # Pending /\ InvalidRequest(request[r]) =>
      /\ Answered(r)
      /\ ~response[r].success
      /\ response[r].error # ""
      /\ \A s \in AllSites : issued[r][s] = 0

\* A text file sent with a prompt has been rejected.
C2_TextFileRejected ==
  /\ request[1] # Pending
  /\ request[1].parsed
  /\ request[1].image = "text/plain"
  /\ request[1].prompt # <<>>
  /\ response[1] = InvalidFileType

Similarities(resp) ==
  {resp.scores.azureVisionSimilarity}
    \cup {x \in {resp.scores.azureMultimodalSimilarity,
                 resp.scores.gpt4oDescriptionSimilarity} : x # Null}
    \cup (IF resp.embeddingComparison = Null THEN {}
          ELSE UNION {{resp.embeddingComparison[k].azureVisionSimilarity,
                       resp.embeddingComparison[k].gpt4oSimilarity} :
                        k \in DOMAIN resp.embeddingComparison})

\* C3: every similarity present in a success response lies in [0, 1].
C3_EverySimilarityInUnitInterval ==
  \A r \in Requests :
    Succeeded(r) =>
      \A x \in Similarities(response[r]) : x.n >= 0 /\ NumLeqOne(x)

\* A success response whose caption score, produced by the token-overlap
\* fallback, is 1.33.
C3_OverlapScoreAboveOne ==
  /\ Succeeded(1)
  /\ EmbedCall("caption") \in failures[1]
  /\ NumEq(response[1].scores.azureVisionSimilarity, Hundredths(133))

\* C4: after a failed caption call the response has success = true, an
\* empty caption, confidence 0, and a caption score equal to the
\* token-overlap similarity of the empty caption and the prompt.
C4_FailedCaptionScoredByTokenOverlap ==
  \A r \in Requests :
    Answered(r) /\ CaptionFetch \in failures[r] =>
      /\ response[r].success
      /\ response[r].azureVisionDetails.generatedCaption = <<>>
      /\ NumEq(response[r].azureVisionDetails.confidence, Zero)
      /\ NumEq(response[r].scores.azureVisionSimilarity,
               calculateBasicTextSimilarity(<<>>, request[r].prompt))

\* A failed caption call for a prompt of one blank: the score reported is 0,
\* the token-overlap similarity of the empty caption and the prompt is 1.
C4_BlankPromptAfterFailedCaption ==
  /\ Succeeded(1)
  /\ CaptionFetch \in failures[1]
  /\ request[1].prompt = <<" ">>
  /\ NumEq(response[1].scores.azureVisionSimilarity, Zero)
  /\ NumEq(calculateBasicTextSimilarity(<<>>, request[1].prompt), Hundredths(100))

\* C5: when the caption was obtained and an embedding call for the caption
\* or for the prompt has failed, the similarity of the caption branch is
\* basicTextSimilarity(caption, prompt), the request succeeds, and the
\* response reports that similarity rounded to hundredths.
C5_CaptionEmbeddingFailureFallsBack ==
  \A r \in Requests :
    EmbedCall("caption") \in failures[r] =>
      /\ azureVisionResult[r] # Pending
      /\ azureVisionResult[r].generatedCaption \in ProviderCaptions
      /\ azureVisionResult[r].similarity =
           calculateBasicTextSimilarity(azureVisionResult[r].generatedCaption,
                                        request[r].prompt)
      /\ Answered(r) =>
           /\ response[r].success
           /\ response[r].scores.azureVisionSimilarity =
                Round2(calculateBasicTextSimilarity(
                         response[r].azureVisionDetails.generatedCaption,
                         request[r].prompt))

\* A success response after a failed caption embedding whose caption shares
\* words with the prompt.
C5_FallbackScoreReported ==
  /\ Succeeded(1)
  /\ EmbedCall("caption") \in failures[1]
  /\ response[1].azureVisionDetails.generatedCaption \in ProviderCaptions
  /\ ~NumEq(calculateBasicTextSimilarity(
              response[1].azureVisionDetails.generatedCaption, request[1].prompt),
            Zero)

BothVectorized(r) == DOMAIN vectorized[r] = {ImageVector, TextVector}
SameLength(r) == vectorized[r][ImageVector] = vectorized[r][TextVector]
MultimodalReported(r) ==
  /\ response[r].scores.azureMultimodalSimilarity # Null
  /\ response[r].multimodalDetails # Null
MultimodalAbsent(r) ==
  /\ response[r].scores.azureMultimodalSimilarity = Null
  /\ response[r].multimodalDetails = Null

\* C6 as stated: the multimodal similarity and details are present exactly
\* when both vectorize calls succeeded, and both absent otherwise.
C6_MultimodalIffBothCallsSucceeded ==
  \A r \in Requests :
    Succeeded(r) =>
      IF BothVectorized(r) THEN MultimodalReported(r) ELSE MultimodalAbsent(r)

\* C6: the multimodal similarity and details are present exactly when both
\* vectorize calls succeeded with vectors of one length, and both absent
\* otherwise.
C6_MultimodalIffBothVectorsOfOneLength ==
  \A r \in Requests :
    Succeeded(r) =>
      IF BothVectorized(r) /\ SameLength(r)
      THEN MultimodalReported(r)
      ELSE MultimodalAbsent(r)

\* Both vectorize calls succeeded and the multimodal score is reported.
C6_MultimodalScoreReported ==
  /\ Succeeded(1)
  /\ BothVectorized(1)
  /\ MultimodalReported(1)
  /\ response[1].multimodalDetails.imageEmbeddingDimensions = Len(PromptVector)

\* C7: two requests that differ only in the outcome of the image vectorize
\* call report the same caption score, caption details, description score,
\* description details and embedding comparison.
C7_MultimodalOutcomeLeavesTheRestAlone ==
  family = {ImageVector} /\ Succeeded(1) /\ Succeeded(2) =>
    /\ response[1].scores.azureVisionSimilarity
         = response[2].scores.azureVisionSimilarity
    /\ response[1].scores.gpt4oDescriptionSimilarity
         = response[2].scores.gpt4oDescriptionSimilarity
    /\ response[1].azureVisionDetails = response[2].azureVisionDetails
    /\ response[1].gpt4oDetails = response[2].gpt4oDetails
    /\ response[1].embeddingComparison = response[2].embeddingComparison

\* The image vectorize call failed for request 1 and succeeded for request
\* 2, which reports a multimodal score; both report the other scores.
C7_ImageCallFailedForOneRequest ==
  /\ family = {ImageVector}
  /\ Succeeded(1) /\ Succeeded(2)
  /\ ImageVector \in failures[1] /\ ImageVector \notin failures[2]
  /\ MultimodalAbsent(1) /\ MultimodalReported(2)
  /\ ~NumEq(response[1].scores.azureVisionSimilarity, Zero)
  /\ response[1].scores.gpt4oDescriptionSimilarity # Null
  /\ response[1].embeddingComparison # Null

\* C8: after a failed or malformed chat completion the response has
\* success = true and neither a description similarity nor description
\* details.
C8_FailedDescriptionIsAbsent ==
  \A r \in Requests :
    Answered(r) /\ ChatFetch \in failures[r] =>
      /\ response[r].success
      /\ response[r].scores.gpt4oDescriptionSimilarity = Null
      /\ response[r].gpt4oDetails = Null

\* A success response after a failed chat completion, with a caption score.
C8_ResponseAfterFailedDescription ==
  /\ Succeeded(1)
  /\ ChatFetch \in failures[1]
  /\ CaptionFetch \notin failures[1]
  /\ response[1].gpt4oDetails = Null

\* C9 as stated: when the description was obtained and an embedding call for
\* the description or the prompt has failed, the response has no description
\* similarity.
C9_DescriptionEmbeddingFailureOmitsScore ==
  \A r \in Requests :
    Succeeded(r) /\ EmbedCall("gpt4o") \in failures[r] =>
      response[r].scores.gpt4oDescriptionSimilarity = Null

\* C9: when the description was obtained and an embedding call for the
\* description or the prompt has failed, the response reports the
\* description and, as description similarity, the token-overlap similarity
\* of the description and the prompt rounded to hundredths.
C9_DescriptionEmbeddingFailureFallsBack ==
  \A r \in Requests :
    Succeeded(r) /\ EmbedCall("gpt4o") \in failures[r] =>
      /\ response[r].gpt4oDetails # Null
      /\ response[r].gpt4oDetails.generatedDescription \in ProviderDescriptions
      /\ response[r].scores.gpt4oDescriptionSimilarity =
           Round2(calculateBasicTextSimilarity(
                    response[r].gpt4oDetails.generatedDescription,
                    request[r].prompt))

\* A description score of 0.67 produced by the token-overlap fallback.
C9_DescriptionFallbackScoreReported ==
  /\ Succeeded(1)
  /\ EmbedCall("gpt4o") \in failures[1]
  /\ NumEq(response[1].scores.gpt4oDescriptionSimilarity, Hundredths(67))

ZeroEntry(entry) ==
  NumEq(entry.azureVisionSimilarity, Zero) /\ NumEq(entry.gpt4oSimilarity, Zero)

\* C10: of two requests that differ only in the outcomes of the embedding
\* calls of one model, each reports zeros for that model if one of its
\* calls failed, and both report the same entries for the other two models.
C10_ModelFailureZeroesOnlyItsEntry ==
  \A k \in ModelKeys :
    /\ family = ModelSites(k)
    /\ Succeeded(1) /\ Succeeded(2)
    /\ response[1].embeddingComparison # Null
    => /\ response[2].embeddingComparison # Null
       /\ \A j \in ModelKeys \ {k} :
            response[1].embeddingComparison[j] = response[2].embeddingComparison[j]
       /\ \A r \in Requests :
            EmbedCall(k) \in failures[r] =>
              ZeroEntry(response[r].embeddingComparison[k])

\* An embedding call of the second model failed for request 1 only; the
\* entries of the first and the third model are not zero.
C10_SecondModelFailedForOneRequest ==
  /\ family = ModelSites("embedding3Small")
  /\ Succeeded(1) /\ Succeeded(2)
  /\ failures[1] = {EmbedCall("embedding3Small")} /\ failures[2] = {}
  /\ ZeroEntry(response[1].embeddingComparison["embedding3Small"])
  /\ ~ZeroEntry(response[2].embeddingComparison["embedding3Small"])
  /\ ~NumEq(response[1].embeddingComparison["ada002"].azureVisionSimilarity, Zero)
  /\ ~NumEq(response[1].embeddingComparison["embedding3Large"].gpt4oSimilarity, Zero)

\* C11: an embedding comparison in a response has exactly the entries
\* ada002, embedding3Small and embedding3Large, with dimensions 1536, 1536
\* and 3072, whichever embedding calls failed.
C11_ThreeEntriesWithFixedDimensions ==
  \A r \in Requests :
    Succeeded(r) /\ response[r].embeddingComparison # Null =>
      /\ DOMAIN response[r].embeddingComparison
           = {"ada002", "embedding3Small", "embedding3Large"}
      /\ response[r].embeddingComparison["ada002"].dimensions = 1536
      /\ response[r].embeddingComparison["embedding3Small"].dimensions = 1536
      /\ response[r].embeddingComparison["embedding3Large"].dimensions = 3072
      /\ response[r].embeddingComparison["ada002"].modelName
           = "text-embedding-ada-002"
      /\ response[r].embeddingComparison["embedding3Small"].modelName
           = "text-embedding-3-small"
      /\ response[r].embeddingComparison["embedding3Large"].modelName
           = "text-embedding-3-large"

\* A comparison reported after an embedding call of the first and of the
\* last model failed.
C11_ComparisonAfterModelFailures ==
  /\ Succeeded(1)
  /\ response[1].embeddingComparison # Null
  /\ EmbedCall("ada002") \in failures[1]
  /\ EmbedCall("embedding3Small") \notin failures[1]
  /\ EmbedCall("embedding3Large") \in failures[1]

\* One comparison of the embedding comparison taken by itself: the cosine
\* of the two vectors, and 0 when it cannot be computed.
ComparisonAlone(embedding1, embedding2) ==
  LET similarity == calculateCosineSimilarity(embedding1.vector, embedding2.vector)
  IN  IF similarity.threw THEN Zero ELSE similarity.value

\* C12: when all embedding calls of a model have succeeded, each of the two
\* similarities of its entry is the cosine of its own pair of vectors, so a
\* pair of different lengths zeroes its own similarity and leaves the other
\* similarity of the entry as it is for any pair of one length.
C12_MismatchFailsOnlyItsComparison ==
  [][\A r \in Requests :
       /\ pc[r] = <<"compare", "await">>
       /\ pc'[r] = <<"compare", "model">>
       /\ failures'[r] = failures[r]
       => LET model == embeddingModels[modelIndex[r]]
              site == CHOOSE s \in outstanding[r] : TRUE
          IN  \E o \in {x \in VectorOutcomes(site) : x.status = "ok"} :
                LET all == (site :> o) @@ returned[r]
                    entry == results'[r][model.key]
                IN  /\ entry.azureVisionSimilarity =
                         ComparisonAlone(all[<<model.key, "prompt">>],
                                         all[<<model.key, "caption">>])
                    /\ <<model.key, "description">> \in DOMAIN all =>
                         entry.gpt4oSimilarity =
                           ComparisonAlone(all[<<model.key, "prompt">>],
                                           all[<<model.key, "description">>])]_vars

\* No provider call failed and a description was embedded, yet the entry of
\* the first model holds two zeros.
C12_MismatchZeroedWholeEntry ==
  /\ Succeeded(1)
  /\ failures[1] = {}
  /\ response[1].gpt4oDetails # Null
  /\ response[1].embeddingComparison # Null
  /\ ZeroEntry(response[1].embeddingComparison["ada002"])
  /\ ~ZeroEntry(response[1].embeddingComparison["embedding3Small"])

\* C13 as stated: every success = false response carries an error string
\* and a metadata object with the elapsed processing time.
C13_EveryFailureCarriesMetadata ==
  \A r \in Requests :
    Answered(r) /\ ~response[r].success =>
      /\ response[r].error # ""
      /\ response[r].metadata # Null
      /\ "processingTime" \in DOMAIN response[r].metadata

\* C13: every success = false response carries an error string; the
\* response to an unexpected exception (status 500) also carries metadata
\* with the elapsed processing time, the response to a validation error
\* (status 400) carries no metadata.
C13_OnlyExceptionsCarryMetadata ==
  \A r \in Requests :
    Answered(r) /\ ~response[r].success =>
      /\ response[r].error # ""
      /\ response[r].status \in {400, 500}
      /\ response[r].status = 500 =>
           /\ response[r].metadata # Null
           /\ "processingTime" \in DOMAIN response[r].metadata
           /\ ~request[r].parsed \/ ~InvalidRequest(request[r])
      /\ response[r].status = 400 =>
           /\ response[r].metadata = Null
           /\ InvalidRequest(request[r])

\* A valid request whose image could not be decoded has been answered.
C13_DecodeFailureAnswered ==
  /\ request[1] # Pending
  /\ request[1].parsed
  /\ ~InvalidRequest(request[1])
  /\ Answered(1)
  /\ ~response[1].success
  /\ response[1].metadata = Elapsed

\* C14 as stated: every similarity of a success response, in scores and in
\* the entries of the embedding comparison, is a whole number of hundredths.
C14_EverySimilarityRounded ==
  \A r \in Requests :
    Succeeded(r) => \A x \in Similarities(response[r]) : IsTwoDecimals(x)

\* C14: the similarities in scores are the results of the three branches
\* rounded to hundredths; the embedding comparison is reported as
\* calculateEmbeddingModelComparison returned it, its cosines unrounded.
C14_OnlyScoresRounded ==
  \A r \in Requests :
    Succeeded(r) =>
      /\ \A x \in {y \in {response[r].scores.azureVisionSimilarity,
                          response[r].scores.azureMultimodalSimilarity,
                          response[r].scores.gpt4oDescriptionSimilarity} : y # Null} :
           IsTwoDecimals(x)
      /\ RoundReaches(azureVisionResult[r].similarity,
                      response[r].scores.azureVisionSimilarity.n)
      /\ ~RoundReaches(azureVisionResult[r].similarity,
                       response[r].scores.azureVisionSimilarity.n + 1)
      /\ response[r].embeddingComparison = embeddingComparison[r]
      /\ embeddingComparison[r] # Null =>
           \A k \in ModelKeys :
             embeddingComparison[r][k].azureVisionSimilarity
               \in {Zero, Real(1, 2)}

\* A success response with all three scores, whose embedding comparison
\* holds a cosine of 1 / sqrt 2.
C14_UnroundedCosineReported ==
  /\ Succeeded(1)
  /\ response[1].scores.azureMultimodalSimilarity # Null
  /\ response[1].scores.gpt4oDescriptionSimilarity # Null
  /\ response[1].embeddingComparison # Null
  /\ response[1].embeddingComparison["ada002"].azureVisionSimilarity = Real(1, 2)
  /\ ~IsTwoDecimals(response[1].embeddingComparison["ada002"].azureVisionSimilarity)
  /\ NumEq(response[1].scores.azureVisionSimilarity, Hundredths(71))

CaptionSites == {CaptionFetch} \cup SemanticSites("caption")
MultimodalSites == {ImageVector, TextVector}
DescriptionSites == {ChatFetch} \cup SemanticSites("gpt4o")
NoneIssued(r, sites) == \A s \in sites : issued[r][s] = 0
Configured == env.vision /\ env.openai /\ env.gpt4o

\* C15 as stated: the branches do not block one another, so while the
\* caption fetch is outstanding, however long, the handler comes to issue
\* the vectorize calls of the multimodal branch and the chat completion of
\* the description branch.
C15_BranchesDoNotWaitForCaption ==
  (Configured /\ CaptionFetch \in outstanding[1])
    ~> (issued[1][ImageVector] > 0 /\ issued[1][ChatFetch] > 0)

\* C15: the branches run one after the other: no call of the multimodal or
\* description branch is issued before the caption branch has returned its
\* result, and no call of the description branch before the multimodal
\* branch has returned its result.
C15_BranchesRunInSequence ==
  \A r \in Requests :
    /\ azureVisionResult[r] = Pending =>
         NoneIssued(r, MultimodalSites \cup DescriptionSites)
    /\ multimodalResult[r] = Pending => NoneIssued(r, DescriptionSites)
    /\ outstanding[r] \subseteq CaptionSites
         \/ outstanding[r] \subseteq MultimodalSites
         \/ outstanding[r] \subseteq DescriptionSites
         \/ outstanding[r] \subseteq ComparisonSites

\* The caption fetch is outstanding with every provider configured, and no
\* other call has been issued.
C15_OnlyCaptionOutstanding ==
  /\ Configured
  /\ outstanding[1] = {CaptionFetch}
  /\ NoneIssued(1, AllSites \ {CaptionFetch})

\* C19: when every provider call returns or fails, a request that has
\* arrived is answered, and the answer, once given, is never replaced.
C19_EveryRequestAnsweredOnce ==
  /\ (request[1] # Pending) ~> Answered(1)
  /\ [][\A r \in Requests : Answered(r) => response'[r] = response[r]]_vars

\* A request has been answered after a provider call returned.
C19_AnsweredAfterProviderCalls ==
  /\ Succeeded(1)
  /\ \E s \in AllSites : issued[1][s] > 0
  /\ pc[1] = <<"post", "done">>

\* Whether some comparison call of the model `key` was issued for request r.
ModelStarted(r, key) == \E s \in ModelSites(key) : issued[r][s] > 0

C17_ComparisonWaitsForBothTexts ==
  \A r \in Requests : \A k \in ModelKeys :
    /\ (issued[r][<<k, "caption">>] > 0 \/ issued[r][<<k, "description">>] > 0)
         => (azureVisionResult[r] # Pending /\ gpt4oResult[r] # Pending)
    /\ gpt4oResult[r] \in {Null, Pending} => issued[r][<<k, "description">>] = 0

\* The description branch failed and the comparison ran for every model: the
\* prompt and the caption were embedded, the description never was.
C17_ComparedWithoutDescription ==
  /\ Succeeded(1)
  /\ gpt4oResult[1] = Null
  /\ response[1].embeddingComparison # Null
  /\ \A k \in ModelKeys :
       /\ issued[1][<<k, "prompt">>] = 1
       /\ issued[1][<<k, "caption">>] = 1
       /\ issued[1][<<k, "description">>] = 0

\* C18: no provider call is retried: within one request every call site is
\* invoked at most once, whether its call succeeds or fails.
C18_EachCallSiteInvokedAtMostOnce ==
  \A r \in Requests : \A s \in AllSites : issued[r][s] <= 1

\* A request was answered after its caption fetch and one embedding call of
\* its description branch had failed: both call sites were invoked once.
C18_AnsweredAfterFailuresWithoutRetry ==
  /\ Succeeded(1)
  /\ CaptionFetch \in failures[1]
  /\ EmbedCall("gpt4o") \in failures[1]
  /\ issued[1][CaptionFetch] = 1
  /\ \A s \in SemanticSites("gpt4o") : issued[1][s] = 1

\* Whether the scorer process of request r still needs its temporary file.
UsesTempFile(r) == pythonProcess[r] = "spawned"

\* C20: requests handled at the same time share no temporary image file: two
\* requests whose scorer processes are running have different files, each
\* scorer process reads the image its own request wrote, and the file of a
\* process that has not read it yet is still there with that image.
C20_NoSharedTempFile ==
  /\ \A r1, r2 \in Requests :
       (r1 # r2 /\ UsesTempFile(r1) /\ UsesTempFile(r2))
         => tempImagePath[r1] # tempImagePath[r2]
  /\ \A r \in Requests : loaded[r] \in {NotLoaded, imageBuffer(r)}
  /\ \A r \in Requests :
       UsesTempFile(r) => tempFiles[tempImagePath[r]] = imageBuffer(r)

\* Two requests started within one millisecond: the scorer process of
\* request 1 read the image of request 2, and request 2 found its file
\* deleted by the close handler of request 1.
C20_ReadOtherImageAndLostFile ==
  /\ tempImagePath[1] = tempImagePath[2]
  /\ loaded[1] = imageBuffer(2)
  /\ blipSimilarity[1] = "resolved"
  /\ loaded[2] = FileNotFound
  /\ blipSimilarity[2] = "rejected"

\* --------------------------------------------- properties: pure functions
BasicCall == pureInput # Null /\ pureInput.fn = "basic" /\ pureOutput # Pending
CosineCall == pureInput # Null /\ pureInput.fn = "cosine" /\ pureOutput # Pending
\* The distinct lowercased whitespace-separated tokens of a text.
Tokens(t) == Range(Words(t)) \ {<<>>}
Blank(t) == Trim(t) = <<>>
Jaccard(A, B) ==
  Real(Cardinality(A \cap B), Cardinality(A \cup B) * Cardinality(A \cup B))
Magnitude2(v) == SumProducts(v, v, Len(v))

\* C21: for texts with at least one token between them, the result is
\* |A \cap B| / |A \cup B| over their token sets A and B (so repeating a
\* word changes nothing).
C21_BasicSimilarityIsJaccard ==
  (BasicCall /\ Tokens(pureInput.text1) \cup Tokens(pureInput.text2) # {})
    => pureOutput.value =
         Jaccard(Tokens(pureInput.text1), Tokens(pureInput.text2))

\* "a a" against "a": the token sets are equal, the result is 2.
C21_RepeatedWordCountedTwice ==
  /\ BasicCall
  /\ pureInput.text1 = <<"a", " ", "a">>
  /\ pureInput.text2 = <<"a">>
  /\ pureOutput.value = Num(2, 1)

\* C22: the result is 0 when both texts are empty or only whitespace.
C22_BlankTextsScoreZero ==
  (BasicCall /\ Blank(pureInput.text1) /\ Blank(pureInput.text2))
    => pureOutput.value = Zero

\* Two empty texts: the result is 1.
C22_EmptyTextsScoreOne ==
  /\ BasicCall
  /\ pureInput.text1 = <<>>
  /\ pureInput.text2 = <<>>
  /\ pureOutput.value = Num(1, 1)

\* C23: for vectors of different lengths calculateCosineSimilarity throws
\* and returns no number.
C23_DifferentLengthsThrow ==
  (CosineCall /\ Len(pureInput.vector1) # Len(pureInput.vector2))
    => pureOutput = Threw

\* A vector of two components against a vector of one: thrown.
C23_MismatchThrown ==
  /\ CosineCall
  /\ Len(pureInput.vector1) = 2
  /\ Len(pureInput.vector2) = 1
  /\ pureOutput = Threw

\* C24: a returned cosine is never negative, and it is exactly 0 for
\* vectors of one length whose dot product is negative.
C24_NeverNegative ==
  (CosineCall /\ Len(pureInput.vector1) = Len(pureInput.vector2))
    => /\ ~pureOutput.threw
       /\ pureOutput.value.n >= 0
       /\ SumProducts(pureInput.vector1, pureInput.vector2, Len(pureInput.vector1)) < 0
            => pureOutput.value = Zero

\* v = (1, -1) against -v: the result is 0.
C24_OppositeVectorsScoreZero ==
  /\ CosineCall
  /\ pureInput.vector1 = <<1, -1>>
  /\ pureInput.vector2 = <<-1, 1>>
  /\ pureOutput = Returned(Zero)

\* C25: for vectors of one length, one of them of magnitude zero, the
\* result is the number 0 and nothing is thrown.
C25_ZeroMagnitudeScoresZero ==
  (/\ CosineCall
   /\ Len(pureInput.vector1) = Len(pureInput.vector2)
   /\ (Magnitude2(pureInput.vector1) = 0 \/ Magnitude2(pureInput.vector2) = 0))
    => pureOutput = Returned(Zero)

\* The zero vector against (1, -1): the result is 0.
C25_ZeroVectorScoresZero ==
  /\ CosineCall
  /\ pureInput.vector1 = <<0, 0>>
  /\ pureInput.vector2 = <<1, -1>>
  /\ pureOutput = Returned(Zero)

\* ------------------------------------------ properties: iterative editor
\* C26: the history holds only edits that descend from the image now
\* loaded, and is empty when no image is loaded: the result of an edit that
\* was in flight during an upload or a clear is not added.
C26_HistoryOfLoadedImage ==
  /\ originalPreview = NoUrl => history.edits = <<>>
  /\ \A i \in DOMAIN history.edits : history.edits[i].base = originalPreview

\* The image was cleared while an edit was in flight, then the result came:
\* no image is loaded, and the history has an entry, which is displayed.
C26_StaleEditAfterClear ==
  /\ originalPreview = NoUrl
  /\ ~isEditing
  /\ Len(history.edits) = 1
  /\ history.edits[1].base = ObjectUrl(1)
  /\ currentImageUrl = history.edits[1].url

\* C27: the cursor stays between -1 and the last index of edits, and the
\* displayed image is the original image at -1 and the image of
\* edits[currentIndex] otherwise.
C27_CursorAndDisplayedImage ==
  /\ history.currentIndex \in -1 .. Len(history.edits) - 1
  /\ currentImageUrl = IF history.currentIndex = -1 THEN originalPreview
                       ELSE history.edits[history.currentIndex + 1].url

\* Two edits, one undo, then a failed edit: the cursor is on the first of
\* two entries and its image is displayed.
C27_UndoneThenFailedEdit ==
  /\ Len(history.edits) = 2
  /\ history.currentIndex = 0
  /\ currentImageUrl = history.edits[1].url
  /\ error = "Failed to edit image"
  /\ ~isEditing

\* C28: when applyEdit was called with the cursor before the last entry and
\* the edit succeeds, the entries after that cursor are discarded, the new
\* edit is the last entry and the cursor is on it, so that redo (which
\* needs the cursor before the last entry) is disabled; when the edit fails, history and cursor stay as they are.
C28_EditAfterUndoTruncates ==
  [][(closure # Null /\ closure' = Null)
       => IF created'.edits = created.edits
          THEN history' = history
          ELSE LET old == closure.history
               IN  old.currentIndex < Len(old.edits) - 1
                     => /\ Len(history'.edits) = old.currentIndex + 2
                        /\ SubSeq(history'.edits, 1, old.currentIndex + 1)
                             = SubSeq(old.edits, 1, old.currentIndex + 1)
                        /\ history'.edits[Len(history'.edits)].url = EditedUrl(created'.edits)
                        /\ history'.currentIndex = Len(history'.edits) - 1]_vars

\* One edit, undone, then a second edit: the first entry is gone, the
\* second edit is the only entry and the cursor is on it.
C28_SecondEditReplacedUndoneFirst ==
  /\ originalPreview = ObjectUrl(1)
  /\ created.edits = 2
  /\ Len(history.edits) = 1
  /\ history.edits[1].url = EditedUrl(2)
  /\ history.currentIndex = 0

\* ------------------------------------------------ properties: video route
VideoAnswered == videoResponse # Pending
Polled == statusData # Null

\* C29: pollJobStatus issues at most maxAttempts status requests and begins
\* no wait after the last of them; when the last one reports no terminal
\* status either, the request fails with the timeout error; and the
\* request is always answered in the end.
C29_PollingIsBounded ==
  /\ [](/\ polls <= maxAttempts
        /\ waits <= maxAttempts - 1
        /\ videoPc = "wait" => polls < maxAttempts
        /\ (videoPc = "done" /\ Polled /\ PollVerdict(statusData) = "continue")
             => (polls = maxAttempts /\ videoResponse = TimedOut)
        /\ videoResponse = TimedOut
             => (polls = maxAttempts /\ waits = maxAttempts - 1))
  /\ (videoPc # "idle") ~> VideoAnswered

\* Every one of the maxAttempts status requests found the job running: the
\* request was answered with the timeout error.
C29_TimedOutAfterLastAttempt ==
  /\ videoResponse = TimedOut
  /\ polls = maxAttempts
  /\ statusData.status = "running"

\* C30: the video content is requested only after a status request has
\* returned 'succeeded'; after a status request that returned 'failed' or
\* 'cancelled' or did not succeed as a request, polling is over, the
\* request is answered with an error and no content was requested.
C30_ContentOnlyAfterSuccess ==
  /\ contentRequests > 0 => (Polled /\ statusData.ok /\ statusData.status = "succeeded")
  /\ (Polled /\ (~statusData.ok \/ statusData.status \in {"failed", "cancelled"}))
       => /\ videoPc = "done"
          /\ VideoAnswered
          /\ videoResponse.status = 500
          /\ contentRequests = 0

\* The second status request reported the job failed: answered with an
\* error after two polls and one wait, no content requested.
C30_FailedJobAnsweredAtOnce ==
  /\ Polled
  /\ statusData.status = "failed"
  /\ polls = 2
  /\ waits = 1
  /\ contentRequests = 0
  /\ videoPc = "done"
  /\ videoResponse = VideoError(500, "Video generation failed")
=============================================================================
